---- MODULE Spec2Model ----
(***************************************************************************)
(* A model of src/src/scraper.cpp: the ingestion pipeline                  *)
(* (IntelligenceEngine::Run), the record model (ModelEntity), the          *)
(* enrichment step (KnowledgeBase::Enrich), the retrying fetch             *)
(* (NetworkClient::Get) and the exporters (DataExporter, ExportAll).       *)
(*                                                                         *)
(* Numbers.  The program computes in double; the model computes in fixed   *)
(* point.  Scores, confidence and rank values are integers counting        *)
(* 1/SC (SC = 10000, so 0.8111 is 8111 and a rank of 80.3 is 803000).      *)
(* Prices are integers counting 1/PSC (cents).  Throughput, context        *)
(* length and days are plain integers.  Weights that the code writes as    *)
(* decimal fractions are kept as integer hundredths, so that                *)
(* (s*0.40 + ...)*100.0 becomes s*40 + ... with no rounding.               *)
(*                                                                         *)
(* Specifications.  Spec is main: Run, then ExportAll.  GetSpec is the     *)
(* same with the fetch scheduled fairly.  EntitySpec is one ModelEntity    *)
(* with its public operations called in any order.                         *)
(***************************************************************************)
EXTENDS Integers, Sequences, FiniteSets, TLC

\* fixed-point scale of scores, confidence and ranks (units per 1.0)
SC == 100 * 100
\* fixed-point scale of prices (units per 1.0 currency unit)
PSC == 10 * 10

Min(a, b) == IF a < b THEN a ELSE b
Abs(x) == IF x < 0 THEN 0 - x ELSE x
\* a clamp that has lost its upper bound
ClampLowerOnly(v, lo, hi) == IF v < lo THEN lo ELSE v
\* std::clamp(v, lo, hi)
Clamp(v, lo, hi) == IF v < lo THEN lo ELSE IF hi < v THEN hi ELSE v

\* the mean square left without its root taken
MeanSquare(n) == n \div SC

RECURSIVE SqrtIn(_, _, _)
\* largest r in lo..hi with r*r <= n, by bisection
SqrtIn(n, lo, hi) ==
    IF lo >= hi THEN lo
    ELSE LET mid == (lo + hi + 1) \div 2
         IN IF mid * mid <= n THEN SqrtIn(n, mid, hi)
            ELSE SqrtIn(n, lo, mid - 1)
\* std::sqrt on a value counted in 1/SC^2, giving a value counted in 1/SC
Sqrt(n) == IF n <= 0 THEN 0 ELSE SqrtIn(n, 0, 4 * SC)

\* binary fixed-point scale used inside Log10 only
LF == 64 * 64

RECURSIVE LogBits(_, _, _)
\* fractional digits of log10(y/LF) for LF <= y < 10*LF, by repeated
\* squaring; bit is the value (in 1/SC) of the binary digit being decided
LogBits(y, bit, k) ==
    IF k = 0 \/ bit = 0 THEN 0
    ELSE LET y2 == (y * y) \div LF
         IN IF y2 >= 10 * LF
            THEN bit + LogBits(y2 \div 10, bit \div 2, k - 1)
            ELSE LogBits(y2, bit \div 2, k - 1)

RECURSIVE Log10(_, _)
\* std::log10(num/den) for num >= den > 0, counted in 1/SC
Log10(num, den) ==
    IF num >= 10 * den THEN SC + Log10(num \div 10, den)
    ELSE LogBits((num * LF) \div den, SC \div 2, 10)

(***************************************************************************)
(* JSON values (nlohmann::json) as far as the program looks at them.       *)
(*   t = "absent"  the key is not in the object                            *)
(*   t = "null" | "bool" | "num" | "str" | "numstr" | "arr"                *)
(* "num" carries its value in n; "numstr" is a string whose text is the    *)
(* decimal numeral of n (std::stod parses it); "str" is any other string,  *)
(* carried in s; "arr" carries its elements in a.                          *)
(***************************************************************************)
JAbsent == [t |-> "absent", n |-> 0, s |-> "", a |-> <<>>]
JNull == [t |-> "null", n |-> 0, s |-> "", a |-> <<>>]
JBool == [t |-> "bool", n |-> 0, s |-> "", a |-> <<>>]
JNum(x) == [t |-> "num", n |-> x, s |-> "", a |-> <<>>]
JNumStr(x) == [t |-> "numstr", n |-> x, s |-> "", a |-> <<>>]
JStr(str) == [t |-> "str", n |-> 0, s |-> str, a |-> <<>>]
JArr(elems) == [t |-> "arr", n |-> 0, s |-> "", a |-> elems]

Contains(j) == j.t # "absent"
IsNull(j) == j.t = "null"
IsString(j) == j.t \in {"str", "numstr"}
IsNumber(j) == j.t = "num"
IsArray(j) == j.t = "arr"

\* Utils::TryGetDouble(j, key, out): j is the value under key.  A number is
\* taken as is, a string goes through std::stod, whose exception (a string
\* that is no numeral) is caught and reported as "no value".
TryGetDouble(j) ==
    IF ~Contains(j) \/ IsNull(j) THEN [ok |-> FALSE, out |-> 0]
    ELSE IF IsNumber(j) THEN [ok |-> TRUE, out |-> j.n]
    ELSE IF IsString(j)
         THEN IF j.t = "numstr" THEN [ok |-> TRUE, out |-> j.n]
              ELSE [ok |-> FALSE, out |-> 0]
    ELSE [ok |-> FALSE, out |-> 0]

(***************************************************************************)
(* Config (lines 49-73).  Weights are integer hundredths; TIE_THRESHOLD    *)
(* is 0.005 counted in 1/SC.                                               *)
(***************************************************************************)
MAX_RETRIES == 3
RETRY_DELAY_MS == 2000
OVERALL_CORE == 40
OVERALL_CODING == 20
OVERALL_CREATIVE == 15
OVERALL_CONFIDENCE == 15
OVERALL_PRICE == 10
CONFIDENCE_BASE == 50
CONFIDENCE_SIGNAL_BONUS == 10
CONFIDENCE_RECENCY_BONUS == 5
CONFIDENCE_VERSATILE_BONUS == 10
CONFIDENCE_VARIANCE_PENALTY == 50
TIE_THRESHOLD == 50

(***************************************************************************)
(* Strings.  Names and labels come from a finite vocabulary; ToLower and   *)
(* std::string::find are tabulated over it.                                *)
(***************************************************************************)
LowerTable ==
    [x \in {"Alpha", "Beta", "Gamma", "Delta", "Zeta", "Omega",
            "GPT-4 Turbo 2025", "Gemini Flash 2024", "OpenAI",
            "Image", "Vision", "Video", "Text", "Audio"} |->
        CASE x = "Alpha" -> "alpha"
          [] x = "Beta" -> "beta"
          [] x = "Gamma" -> "gamma"
          [] x = "Delta" -> "delta"
          [] x = "Zeta" -> "zeta"
          [] x = "Omega" -> "omega"
          [] x = "GPT-4 Turbo 2025" -> "gpt-4 turbo 2025"
          [] x = "Gemini Flash 2024" -> "gemini flash 2024"
          [] x = "OpenAI" -> "openai"
          [] x = "Image" -> "image"
          [] x = "Vision" -> "vision"
          [] x = "Video" -> "video"
          [] x = "Text" -> "text"
          [] x = "Audio" -> "audio"]

\* Utils::ToLower
ToLower(str) == IF str \in DOMAIN LowerTable THEN LowerTable[str] ELSE str

\* the patterns Enrich searches for that occur in a (lower-case) name
Substrings(n) ==
    CASE n = "gpt-4 turbo 2025" -> {"gpt-4", "-4", "turbo", "2025"}
      [] n = "gemini flash 2024" -> {"gemini", "mini", "flash", "2024"}
      [] OTHER -> {}

\* n.find(pat) != std::string::npos
Find(n, pat) == pat \in Substrings(n)

(***************************************************************************)
(* ModelEntity (lines 122-371)                                             *)
(***************************************************************************)
Modality == {"Text", "Image", "Video"}

\* struct PerformanceMetrics, default member initialisers
PerformanceMetrics ==
    [reasoning_score |-> 0, coding_score |-> 0, creative_score |-> 0,
     context_window |-> 0, price_input_1m |-> 0, tokens_per_sec |-> 0,
     is_open_source |-> FALSE, is_enterprise_ready |-> FALSE,
     last_updated_days_ago |-> 0, org_maturity |-> 0, uptime_sla |-> 0,
     recency_bonus |-> 0]

\* struct RankScores, default member initialisers
RankScores ==
    [overall |-> 0, value |-> 0, coding |-> 0, image |-> 0, video |-> 0,
     speed |-> 0, confidence |-> 0, enterprise |-> 0]

\* ModelEntity(n, o)
ModelEntity(n, o) ==
    [name |-> n, organization |-> o, modalities |-> {},
     metrics |-> PerformanceMetrics, ranks |-> RankScores,
     signals |-> <<>>, final_score |-> 0, confidence_score |-> 0,
     confidence_reason |-> <<>>]

\* AddSignal storing the raw score
AddSignalUnclamped(m, source, score, weight) ==
    IF score > 0
    THEN [m EXCEPT !.signals =
            Append(@, [source |-> source, score |-> score, weight |-> weight])]
    ELSE m

\* AddSignal keeping a score of 0 as a signal
AddSignalFromZero(m, source, score, weight) ==
    IF score >= 0
    THEN [m EXCEPT !.signals =
            Append(@, [source |-> source, score |-> Clamp(score, 0, SC),
                       weight |-> weight])]
    ELSE m

\* ModelEntity::AddSignal
AddSignal(m, source, score, weight) ==
    IF score > 0
    THEN [m EXCEPT !.signals =
            Append(@, [source |-> source, score |-> Clamp(score, 0, SC),
                       weight |-> weight])]
    ELSE m

RECURSIVE WeightedSum(_)
WeightedSum(sigs) ==
    IF sigs = <<>> THEN 0
    ELSE Head(sigs).score * Head(sigs).weight + WeightedSum(Tail(sigs))

RECURSIVE TotalWeight(_)
TotalWeight(sigs) ==
    IF sigs = <<>> THEN 0 ELSE Head(sigs).weight + TotalWeight(Tail(sigs))

\* the tier of a staleness (lines 208-211)
RecencyTier(days) ==
    IF days <= 30 THEN 3
    ELSE IF days <= 90 THEN 2
    ELSE IF days <= 180 THEN 1
    ELSE 0

\* ModelEntity::ComputeAggregates
ComputeAggregates(m) ==
    LET scored ==
          IF m.signals # <<>>
          THEN [m EXCEPT !.final_score =
                  IF TotalWeight(m.signals) > 0
                  THEN WeightedSum(m.signals) \div TotalWeight(m.signals)
                  ELSE 0]
          ELSE [m EXCEPT !.final_score = 0,
                         !.confidence_reason = <<"No Verified Signals">>]
    IN [scored EXCEPT !.metrics.recency_bonus =
          RecencyTier(m.metrics.last_updated_days_ago)]

\* 1.0 / (1.0 + price / 10.0), counted in 1/SC
PriceFactor(price) == (SC * 10 * PSC) \div (10 * PSC + price)

\* the Image score scaled, not zeroed, for a record without Image
ImageScaled(m, gen) ==
    IF "Image" \notin m.modalities THEN (gen * 3) \div 10 ELSE gen

\* line 305: ranks.image is 0 for a record without Image
ImageGate(m, gen) == IF "Image" \notin m.modalities THEN 0 ELSE gen

\* the Video score zeroed for a record without Video
VideoZeroed(m, gen) == IF "Video" \notin m.modalities THEN 0 ELSE gen

\* lines 310-312: ranks.video *= 0.3 for a record without Video
VideoGate(m, gen) ==
    IF "Video" \notin m.modalities THEN (gen * 3) \div 10 ELSE gen

\* ModelEntity::ComputeRankings
ComputeRankings(m) ==
    LET conf_factor == m.confidence_score \div 100
        price_factor == PriceFactor(m.metrics.price_input_1m)
        overall == m.final_score * OVERALL_CORE
                   + m.metrics.coding_score * OVERALL_CODING
                   + m.metrics.creative_score * OVERALL_CREATIVE
                   + conf_factor * OVERALL_CONFIDENCE
                   + price_factor * OVERALL_PRICE
        value == IF m.metrics.price_input_1m <= 0
                 THEN m.final_score * 1000
                 ELSE (m.final_score * m.final_score)
                      \div (Log10(m.metrics.price_input_1m + PSC, PSC)
                            + SC \div 10)
        ctx_norm == Clamp(m.metrics.context_window \div 200000, 0, SC)
        coding == m.metrics.coding_score * 60
                  + m.metrics.reasoning_score * 20
                  + ctx_norm * 10 + conf_factor * 10
        speed_norm == Clamp((m.metrics.tokens_per_sec * SC) \div 150, 0, SC)
        gen == m.final_score * 50 + m.metrics.creative_score * 30
               + speed_norm * 10 + conf_factor * 10
        image == ImageGate(m, gen)
        video == VideoGate(m, gen)
        speed_base == Clamp((m.metrics.tokens_per_sec * SC) \div 200, 0, SC)
        speed == speed_base * 70 + conf_factor * 20 + price_factor * 10
        enterprise == conf_factor * 40 + m.metrics.uptime_sla * 30
                      + m.metrics.org_maturity * 30
    IN [m EXCEPT !.ranks =
          [overall |-> overall, value |-> value, coding |-> coding,
           image |-> image, video |-> video, speed |-> speed,
           confidence |-> m.confidence_score, enterprise |-> enterprise]]

RECURSIVE SqSum(_, _)
\* std::inner_product of (x - mean) * (x - mean) over the signal scores
SqSum(sigs, mean) ==
    IF sigs = <<>> THEN 0
    ELSE (Head(sigs).score - mean) * (Head(sigs).score - mean)
         + SqSum(Tail(sigs), mean)

\* the dispersion added to the confidence
VarianceBonus(variance) == 0 - variance * CONFIDENCE_VARIANCE_PENALTY

\* variance * CONFIDENCE_VARIANCE_PENALTY, what line 255 subtracts
VariancePenalty(variance) == variance * CONFIDENCE_VARIANCE_PENALTY

\* the reason string left as the previous call wrote it
KeepReason(m) == m

\* confidence_reason = "" at the start of RecalculateConfidence (line 216)
ResetReason(m) == [m EXCEPT !.confidence_reason = <<>>]

\* ModelEntity::RecalculateConfidence
RecalculateConfidence(m) ==
    LET n == Len(m.signals)
        days == m.metrics.last_updated_days_ago
        recent == days <= 30
        recency == IF recent THEN CONFIDENCE_RECENCY_BONUS * SC
                   ELSE IF days <= 90 THEN (CONFIDENCE_RECENCY_BONUS * SC) \div 2
                   ELSE 0
        is_versatile ==
            (m.metrics.coding_score > (75 * SC) \div 100
             /\ m.metrics.creative_score > (75 * SC) \div 100)
            \/ Cardinality(m.modalities) > 1
        quality == IF m.final_score > (85 * SC) \div 100 THEN 15 * SC
                   ELSE IF m.final_score > (75 * SC) \div 100 THEN 10 * SC
                   ELSE IF m.final_score > (65 * SC) \div 100 THEN 5 * SC
                   ELSE IF m.final_score < (40 * SC) \div 100 THEN 0 - 10 * SC
                   ELSE 0
        variance == IF n > 1 THEN Sqrt(SqSum(m.signals, m.final_score) \div n)
                    ELSE 0
        conf == CONFIDENCE_BASE * SC
                + n * CONFIDENCE_SIGNAL_BONUS * SC
                + recency
                + (IF is_versatile THEN CONFIDENCE_VERSATILE_BONUS * SC ELSE 0)
                + quality
                - VariancePenalty(variance)
                + (IF m.metrics.is_enterprise_ready THEN 5 * SC ELSE 0)
        reason == ResetReason(m).confidence_reason
                  \o (IF recent THEN <<"Recent Verification">> ELSE <<>>)
                  \o (IF is_versatile THEN <<"Multi-Category Verified">> ELSE <<>>)
                  \o (IF n >= 3 THEN <<"High Consensus">> ELSE <<>>)
    IN ComputeRankings(
         IF n > 0
         THEN [m EXCEPT !.confidence_reason = reason,
                        !.confidence_score = Clamp(conf, 10 * SC, 99 * SC)]
         ELSE [m EXCEPT !.confidence_reason = ResetReason(m).confidence_reason,
                        !.confidence_score = 10 * SC])

\* ModelEntity::ToJSON
ToJSON(m) ==
    LET hundred == 100 * SC
        primary_type ==
            IF "Video" \in m.modalities THEN "Video"
            ELSE IF "Image" \in m.modalities /\ Cardinality(m.modalities) = 1
                 THEN "Image"
            ELSE IF Cardinality(m.modalities) > 1 THEN "Multimodal"
            ELSE "Text"
    IN [name |-> m.name, org |-> m.organization,
        metrics |->
          [score |-> Clamp(m.final_score * 100, 0, hundred),
           coding |-> Clamp(m.metrics.coding_score * 100, 0, hundred),
           creative |-> Clamp(m.metrics.creative_score * 100, 0, hundred),
           price |-> m.metrics.price_input_1m,
           speed |-> m.metrics.tokens_per_sec,
           recency_bonus |-> m.metrics.recency_bonus,
           days_ago |-> m.metrics.last_updated_days_ago],
        ranks |->
          [overall |-> Clamp(m.ranks.overall, 0, hundred),
           value |-> Clamp(m.ranks.value, 0, hundred),
           coding |-> Clamp(m.ranks.coding, 0, hundred),
           image |-> Clamp(m.ranks.image, 0, hundred),
           video |-> Clamp(m.ranks.video, 0, hundred),
           speed |-> Clamp(m.ranks.speed, 0, hundred),
           confidence |-> Clamp(m.ranks.confidence, 0, hundred),
           enterprise |-> Clamp(m.ranks.enterprise, 0, hundred)],
        meta |->
          [confidence |-> m.confidence_score,
           conf_reason |-> m.confidence_reason,
           is_open_source |-> m.metrics.is_open_source,
           is_enterprise |-> m.metrics.is_enterprise_ready,
           is_image |-> "Image" \in m.modalities,
           is_video |-> "Video" \in m.modalities,
           is_text |-> "Text" \in m.modalities,
           primary_type |-> primary_type]]

(***************************************************************************)
(* Raw items.  An item of the payload is a record of the JSON values       *)
(* under the keys the program reads.                                       *)
(***************************************************************************)
RawItem ==
    [name |-> JAbsent, organization |-> JAbsent, gpqa_score |-> JAbsent,
     average_score |-> JAbsent, modalities |-> JAbsent,
     input_price |-> JAbsent, coding_score |-> JAbsent,
     humaneval |-> JAbsent, creative_score |-> JAbsent,
     context_length |-> JAbsent, throughput |-> JAbsent,
     tokens_per_second |-> JAbsent, release_date |-> JAbsent,
     updated_at |-> JAbsent]

(***************************************************************************)
(* KnowledgeBase::Enrich (lines 414-553)                                   *)
(***************************************************************************)
RECURSIVE InsertModalities(_, _)
\* the loop over rawItem["modalities"] (lines 420-425); mod.get<std::string>()
\* throws json::type_error on an element that is no string
InsertModalities(mods, elems) ==
    IF elems = <<>> THEN [threw |-> FALSE, modalities |-> mods]
    ELSE IF ~IsString(Head(elems)) THEN [threw |-> TRUE, modalities |-> mods]
    ELSE LET modStr == ToLower(Head(elems).s)
             next == IF modStr = "image" \/ modStr = "vision"
                     THEN mods \cup {"Image"}
                     ELSE IF modStr = "video" THEN mods \cup {"Video"}
                     ELSE IF modStr = "text" THEN mods \cup {"Text"}
                     ELSE mods
         IN InsertModalities(next, Tail(elems))

\* name-based modality detection (lines 426-460)
ModalitiesByName(n) ==
    IF Find(n, "midjourney") \/ Find(n, "stable diffusion")
       \/ Find(n, "dall-e") \/ Find(n, "imagen")
    THEN {"Image", "Text"}
    ELSE IF Find(n, "sora") \/ Find(n, "runway") \/ Find(n, "gen-2")
            \/ Find(n, "gen-3") \/ Find(n, "pika") \/ Find(n, "animatediff")
            \/ Find(n, "stable video") \/ Find(n, "kling")
            \/ Find(n, "video generation")
    THEN {"Video", "Text"}
    ELSE IF Find(n, "gpt-4") \/ Find(n, "gpt-5") \/ Find(n, "claude 3")
            \/ Find(n, "claude 4") \/ Find(n, "gemini")
            \/ (Find(n, "qwen") /\ Find(n, "vl"))
            \/ Find(n, "llama 3.2 11b") \/ Find(n, "llama 3.2 90b")
            \/ (Find(n, "grok")
                /\ (Find(n, "-2") \/ Find(n, "-3") \/ Find(n, "-4")))
            \/ Find(n, "pixtral") \/ Find(n, "qvq") \/ Find(n, "vision")
            \/ Find(n, "-vl") \/ Find(n, "diffusion")
    THEN {"Image", "Text"}
    ELSE {"Text"}

\* the staleness Enrich assigns (lines 535-552)
StalenessOf(n, rawItem) ==
    IF Contains(rawItem.release_date) /\ ~IsNull(rawItem.release_date) THEN 90
    ELSE IF Contains(rawItem.updated_at) /\ ~IsNull(rawItem.updated_at) THEN 60
    ELSE IF Find(n, "2025") THEN 15
    ELSE IF Find(n, "2024") THEN 90
    ELSE IF Find(n, "2023") THEN 365
    ELSE 180

\* Enrich without the modality step: lines 462-552
EnrichMetrics(m, rawItem) ==
    LET n == ToLower(m.name)
        o == ToLower(m.organization)
        price == TryGetDouble(rawItem.input_price)
        price_input_1m ==
            IF price.ok
            THEN IF price.out < PSC /\ price.out > 0
                 THEN price.out * 1000000 ELSE price.out
            ELSE IF Find(n, "gpt-4") THEN 10 * PSC
            ELSE IF Find(n, "flash") THEN PSC \div 4
            ELSE 0
        is_open_source == Find(n, "llama") \/ Find(n, "mistral")
                          \/ Find(n, "qwen") \/ Find(n, "falcon")
        is_enterprise_ready == o \in {"openai", "anthropic", "google", "microsoft"}
        cs1 == TryGetDouble(rawItem.coding_score)
        cs2 == TryGetDouble(rawItem.humaneval)
        coding_score ==
            IF cs1.ok THEN cs1.out
            ELSE IF cs2.ok THEN cs2.out
            ELSE IF Find(n, "code") THEN (m.final_score * 105) \div 100
            ELSE (m.final_score * 85) \div 100
        cr == TryGetDouble(rawItem.creative_score)
        creative_score ==
            IF cr.ok THEN Min(SC, cr.out)
            ELSE IF "Image" \in m.modalities \/ "Video" \in m.modalities
                 THEN Min(SC, (m.final_score * 110) \div 100)
            ELSE IF Find(n, "gpt-4") \/ Find(n, "claude") \/ Find(n, "gemini")
                 THEN Min(SC, (m.final_score * 95) \div 100)
            ELSE Min(SC, (m.final_score * 80) \div 100)
        ctx == TryGetDouble(rawItem.context_length)
        context_window ==
            IF ctx.ok THEN Min(SC, ctx.out \div (200000 \div SC))
            ELSE IF Find(n, "128k") \/ Find(n, "200k") THEN (8 * SC) \div 10
            ELSE SC \div 2
        tp1 == TryGetDouble(rawItem.throughput)
        tp2 == TryGetDouble(rawItem.tokens_per_second)
        tokens_per_sec ==
            IF tp1.ok THEN tp1.out
            ELSE IF tp2.ok THEN tp2.out
            ELSE IF Find(n, "turbo") THEN 120
            ELSE IF Find(n, "flash") THEN 150
            ELSE IF Find(n, "mini") THEN 100
            ELSE 50
    IN [m EXCEPT !.metrics =
          [@ EXCEPT !.price_input_1m = price_input_1m,
                    !.is_open_source = is_open_source,
                    !.is_enterprise_ready = is_enterprise_ready,
                    !.org_maturity = IF is_enterprise_ready
                                     THEN (95 * SC) \div 100 ELSE SC \div 2,
                    !.uptime_sla = IF is_enterprise_ready
                                   THEN (99 * SC) \div 100 ELSE (8 * SC) \div 10,
                    !.coding_score = coding_score,
                    !.reasoning_score = m.final_score,
                    !.creative_score = creative_score,
                    !.context_window = context_window,
                    !.tokens_per_sec = tokens_per_sec,
                    !.last_updated_days_ago = StalenessOf(n, rawItem)]]

\* KnowledgeBase::Enrich; threw = a json::exception left the function, with
\* the labels inserted before it still in m
Enrich(m, rawItem) ==
    LET n == ToLower(m.name)
        det == IF Contains(rawItem.modalities) /\ IsArray(rawItem.modalities)
               THEN InsertModalities(m.modalities, rawItem.modalities.a)
               ELSE [threw |-> FALSE,
                     modalities |-> m.modalities \cup ModalitiesByName(n)]
    IN IF det.threw
       THEN [threw |-> TRUE, m |-> [m EXCEPT !.modalities = det.modalities]]
       ELSE [threw |-> FALSE,
             m |-> EnrichMetrics([m EXCEPT !.modalities = det.modalities],
                                 rawItem)]

(***************************************************************************)
(* IntelligenceEngine::Run, the body of the record loop (lines 1166-1221)  *)
(***************************************************************************)
\* the name checks without the test for an empty name
BadNameButEmpty(item) ==
    ~Contains(item.name) \/ IsNull(item.name) \/ ~IsString(item.name)

\* the name checks of lines 1168-1178: TRUE when the record is counted as
\* skipped for its name
BadName(item) ==
    \/ ~Contains(item.name) \/ IsNull(item.name) \/ ~IsString(item.name)
    \/ item.name.s = ""

\* the duplicate check left out
ExistsNever(reg, name) == FALSE

\* the duplicate check looking at the newest record only
ExistsLast(reg, name) == reg # <<>> /\ reg[Len(reg)].name = name

\* the duplicate check answering yes as soon as the registry holds a record
ExistsAny(reg, name) == reg # <<>>

\* the duplicate check of lines 1180-1183
Exists(reg, name) == \E i \in 1..Len(reg) : reg[i].name = name

\* the signal ingestion taking a signal from each of the two fields
IngestBothSignals(m, item) ==
    LET g == TryGetDouble(item.gpqa_score)
        v == TryGetDouble(item.average_score)
        m1 == IF g.ok /\ g.out >= 0 /\ g.out <= SC
              THEN AddSignal(m, "ZeroEval GPQA", g.out, SC \div 2) ELSE m
    IN IF v.ok /\ v.out >= 0 /\ v.out <= SC
       THEN AddSignal(m1, "Avg Score", v.out, (4 * SC) \div 10) ELSE m1

\* the signal ingestion of lines 1188-1198
IngestSignals(m, item) ==
    LET g == TryGetDouble(item.gpqa_score)
        v == TryGetDouble(item.average_score)
    IN IF g.ok
       THEN IF g.out >= 0 /\ g.out <= SC
            THEN AddSignal(m, "ZeroEval GPQA", g.out, SC \div 2) ELSE m
       ELSE IF v.ok
       THEN IF v.out >= 0 /\ v.out <= SC
            THEN AddSignal(m, "Avg Score", v.out, (4 * SC) \div 10) ELSE m
       ELSE m

\* the stages with the confidence and the rankings computed before the
\* enrichment
BuildEntityRankedFirst(item) ==
    IF Contains(item.organization) /\ ~IsString(item.organization)
    THEN [threw |-> TRUE, m |-> ModelEntity(item.name.s, "Unknown")]
    ELSE LET org == IF Contains(item.organization)
                    THEN item.organization.s ELSE "Unknown"
             m0 == IngestSignals(ModelEntity(item.name.s, org), item)
             m1 == RecalculateConfidence(ComputeAggregates(m0))
             e == Enrich(m1, item)
         IN IF e.threw THEN [threw |-> TRUE, m |-> m1]
            ELSE [threw |-> FALSE, m |-> e.m]

\* lines 1185-1205: the record built from an item whose name passed the
\* checks; threw = a json::exception was thrown on the way
\* (item.value("organization", ...) on a value that is no string, or Enrich)
BuildEntity(item) ==
    IF Contains(item.organization) /\ ~IsString(item.organization)
    THEN [threw |-> TRUE, m |-> ModelEntity(item.name.s, "Unknown")]
    ELSE LET org == IF Contains(item.organization)
                    THEN item.organization.s ELSE "Unknown"
             m0 == IngestSignals(ModelEntity(item.name.s, org), item)
             m1 == ComputeAggregates(m0)
             e == Enrich(m1, item)
         IN IF e.threw THEN [threw |-> TRUE, m |-> m1]
            ELSE [threw |-> FALSE, m |-> RecalculateConfidence(e.m)]

\* the append of line 1208 made unconditional
ShouldAppendAlways(m) == TRUE

\* the condition of line 1207
ShouldAppend(m) == m.final_score > 0

\* what one pass of the loop body does with an item, given the registry:
\* "skipped" (counter incremented), "duplicate" and "dropped" (silent), or
\* "appended"
ProcessItem(reg, item) ==
    IF BadName(item) THEN [kind |-> "skipped", m |-> ModelEntity("", "")]
    ELSE IF Exists(reg, item.name.s)
         THEN [kind |-> "duplicate", m |-> ModelEntity("", "")]
    ELSE LET b == BuildEntity(item)
         IN IF b.threw THEN [kind |-> "skipped", m |-> b.m]
            ELSE IF ShouldAppend(b.m) THEN [kind |-> "appended", m |-> b.m]
            ELSE [kind |-> "dropped", m |-> b.m]

RECURSIVE RunLoop(_, _)
\* the record loop of Run (lines 1166-1221) over items, started with the
\* registry reg: the registry it leaves
RunLoop(reg, items) ==
    IF items = <<>> THEN reg
    ELSE LET r == ProcessItem(reg, Head(items))
         IN RunLoop(IF r.kind = "appended" THEN Append(reg, r.m) ELSE reg,
                    Tail(items))

(***************************************************************************)
(* DataExporter (lines 557-648) and the report's sort (lines 1036-1047)    *)
(***************************************************************************)
\* the tie test of ExportCSV's tieBreakerSort (lines 572-573)
WithinTieCSV(scoreA, scoreB) == Abs(scoreA - scoreB) <= TIE_THRESHOLD

\* tieBreakerSort of ExportCSV (lines 571-575)
TieBreakerSortCSV(a, b, scoreA, scoreB) ==
    IF WithinTieCSV(scoreA, scoreB)
    THEN a.metrics.recency_bonus > b.metrics.recency_bonus
    ELSE scoreA > scoreB

\* the tie test of ExportLegacyText's tieBreakerSort (lines 634-635)
WithinTieLegacy(scoreA, scoreB) == Abs(scoreA - scoreB) <= TIE_THRESHOLD * 100

\* tieBreakerSort of ExportLegacyText (lines 633-637)
TieBreakerSortLegacy(a, b, scoreA, scoreB) ==
    IF WithinTieLegacy(scoreA, scoreB)
    THEN a.metrics.recency_bonus > b.metrics.recency_bonus
    ELSE scoreA > scoreB

LessPerformance(a, b) == TieBreakerSortCSV(a, b, a.ranks.overall, b.ranks.overall)
LessValue(a, b) == TieBreakerSortCSV(a, b, a.ranks.value, b.ranks.value)
LessPrice(a, b) == a.metrics.price_input_1m < b.metrics.price_input_1m
LessLegacy(a, b) ==
    TieBreakerSortLegacy(a, b, a.ranks.overall * 100, b.ranks.overall * 100)

\* the comparison std::sort is called with for an ordering: the lambdas of
\* lines 580-582, 598-600, 615-617 and 639-641
Less(order, a, b) ==
    CASE order = "performance" -> LessPerformance(a, b)
      [] order = "price" -> LessPrice(a, b)
      [] order = "value" -> LessValue(a, b)
      [] order = "legacy" -> LessLegacy(a, b)

\* the predicates of the two remove_if calls (lines 596-597, 613-614)
UnknownPrice(m) == m.metrics.price_input_1m >= 999999 * PSC
NoValue(m) == m.ranks.value <= 0

\* the tie test of the report's sort (line 1044): 0.5 on the scale of the
\* JSON document's rank values
WithinTieReport(scoreA, scoreB) == Abs(scoreA - scoreB) <= SC \div 2

\* the comparison of the report's default sort (lines 1041-1047) on two
\* entries of the JSON document: negative = a first, positive = b first
CompareReport(a, b, rankKey) ==
    LET scoreA == a.ranks[rankKey]
        scoreB == b.ranks[rankKey]
    IN IF WithinTieReport(scoreA, scoreB)
       THEN b.metrics.recency_bonus - a.metrics.recency_bonus
       ELSE scoreB - scoreA

\* Compare requirements of std::sort: a strict weak ordering on the elements
IsStrictWeakOrder(elems, order) ==
    /\ \A a \in elems : ~Less(order, a, a)
    /\ \A a, b, c \in elems : Less(order, a, b) /\ Less(order, b, c) => Less(order, a, c)
    /\ \A a, b, c \in elems :
         (~Less(order, a, b) /\ ~Less(order, b, a) /\ ~Less(order, b, c) /\ ~Less(order, c, b))
            => (~Less(order, a, c) /\ ~Less(order, c, a))

Range(seq) == {seq[i] : i \in 1..Len(seq)}

Arrangements(n) ==
    {p \in [1..n -> 1..n] : \A i, j \in 1..n : p[i] = p[j] => i = j}

\* std::sort(seq, Less): the results it can leave.  With a strict weak
\* ordering the result is sorted, equivalent elements in any order; with a
\* comparison that is none the behaviour is undefined and any arrangement
\* is a possible result.
SortOutcomes(seq, order) ==
    LET n == Len(seq)
        arranged(p) == [i \in 1..n |-> seq[p[i]]]
    IN IF IsStrictWeakOrder(Range(seq), order)
       THEN {arranged(p) : p \in
               {q \in Arrangements(n) :
                  \A i, j \in 1..n :
                     i < j => ~Less(order, seq[q[j]], seq[q[i]])}}
       ELSE {arranged(p) : p \in Arrangements(n)}

\* std::remove_if + erase
RemoveIf(seq, view) ==
    LET Keep(m) == ~(IF view = "price" THEN UnknownPrice(m) ELSE NoValue(m))
    IN SelectSeq(seq, Keep)

\* std::fixed << std::setprecision(3) and (2) on a value counted in 1/SC
Fixed3(x) == ((x + 5) \div 10) * 10
Fixed2(x) == ((x + 50) \div 100) * 100

RECURSIVE Sig6(_)
\* the default stream format of a double: six significant digits
Sig6(x) == IF x < 1000000 THEN x ELSE 10 * Sig6((x + 5) \div 10)

\* the rows ExportCSV writes for a view (rank, name, organization, score,
\* price column, view column), at most 100
CSVRows(sorted, view) ==
    [i \in 1..Min(Len(sorted), 100) |->
       LET m == sorted[i]
       IN [rank |-> i, name |-> m.name, organization |-> m.organization,
           score |-> Fixed3(m.final_score),
           price_na |-> view # "price" /\ m.metrics.price_input_1m >= 999999 * PSC,
           price |-> m.metrics.price_input_1m,
           view |-> IF view = "performance" THEN Fixed2(m.ranks.overall)
                    ELSE IF view = "value" THEN Fixed2(m.ranks.value)
                    ELSE m.metrics.price_input_1m]]

\* the lines ExportLegacyText writes, at most 50
LegacyRows(sorted) ==
    [i \in 1..Min(Len(sorted), 50) |->
       [rank |-> i, name |-> sorted[i].name,
        view |-> Sig6(sorted[i].ranks.overall * 100)]]

(***************************************************************************)
(* Inputs: the bodies the fetch can return                                 *)
(***************************************************************************)
\* the longest payload considered
MaxItems == 3

Named(n) == [RawItem EXCEPT !.name = JStr(n)]

\* a scored item with explicit price, coding and creative scores
Scored(n, gpqa, price, coding, creative) ==
    [Named(n) EXCEPT !.gpqa_score = gpqa, !.input_price = JNum(price),
                     !.coding_score = JNum(coding),
                     !.creative_score = JNum(creative)]

Items ==
    { RawItem,
      [RawItem EXCEPT !.name = JStr(""), !.gpqa_score = JNum(9000)],
      [RawItem EXCEPT !.name = JNum(7), !.gpqa_score = JNum(9000)],
      Scored("Alpha", JNum(8000), 0, 8000, 5000),
      [Named("Alpha") EXCEPT !.gpqa_score = JNum(0),
                             !.average_score = JNum(7000)],
      Scored("Beta", JNumStr(8100), PSC, 8257, 5000),
      [Named("Beta") EXCEPT !.gpqa_score = JNum(85 * SC),
                            !.average_score = JNum(7000)],
      Scored("Gamma", JNum(8200), 2 * PSC, 8436, 5002),
      [Scored("Delta", JNum(8000), 3 * PSC, 8954, 5000) EXCEPT
          !.release_date = JStr("2024-01-01")],
      [Named("Zeta") EXCEPT !.gpqa_score = JStr("n/a"),
                            !.average_score = JNum(7000),
                            !.input_price = JStr("free"),
                            !.organization = JStr("")],
      [Named("Zeta") EXCEPT !.gpqa_score = JNum(6000),
                            !.input_price = JNum(4 * PSC),
                            !.modalities = JArr(<<>>)],
      [Named("Omega") EXCEPT !.gpqa_score = JNum(9000),
                             !.organization = JNull],
      [Named("Omega") EXCEPT !.gpqa_score = JNum(9000),
                             !.modalities = JArr(<<JStr("Image"), JNum(1)>>)],
      [Named("GPT-4 Turbo 2025") EXCEPT !.organization = JStr("OpenAI"),
                                        !.average_score = JNumStr(9000)],
      [Named("Gemini Flash 2024") EXCEPT
          !.gpqa_score = JNum(3000),
          !.modalities = JArr(<<JStr("Text"), JStr("Video"), JStr("Audio")>>),
          !.input_price = JNumStr(50),
          !.context_length = JNum(400000),
          !.tokens_per_second = JNumStr(300),
          !.updated_at = JStr("2024-06-01")] }

Payloads == UNION {[1..k -> Items] : k \in 0..MaxItems}

\* what a response body can be: text that is no JSON, a JSON value that is
\* no array, or an array of items
Bodies ==
    {[kind |-> "garbage", items |-> <<>>], [kind |-> "object", items |-> <<>>]}
    \cup {[kind |-> "array", items |-> p] : p \in Payloads}

EmptyBody == [kind |-> "empty", items |-> <<>>]

\* the ways one attempt of Get can fail (lines 387-403)
Failures == {"WinHttpOpen", "WinHttpConnect", "WinHttpOpenRequest",
             "SendReceive", "EmptyResponse"}

(***************************************************************************)
(* The program: main (lines 1290-1304) runs Run and then ExportAll.        *)
(***************************************************************************)
VARIABLES
    pc,          \* where main is
    attempt,     \* Get: the loop variable
    sleptMs,     \* Get: the time spent in sleep_for so far
    jsonStr,     \* Run: the body Get returned
    data,        \* Run: the parsed array
    idx,         \* Run: the position of the record loop in data (1-based)
    processed,   \* Run: counter
    skipped,     \* Run: counter
    registry,    \* IntelligenceEngine::registry
    orgStats,    \* IntelligenceEngine::orgStats
    runStatus,   \* how Run ended: "running", "aborted" (a return before
                 \* the post-processing stage) or "complete"
    written,     \* the files written so far
    jsonOut,     \* data/leaderboard_all.json (also the report's data)
    csvPerformance, csvPrice, csvValue,   \* the rows of the three CSV files
    legacyText,  \* the lines of output.txt
    ent,         \* a ModelEntity driven through its public operations
    raw,         \* the raw item ent was made from and is enriched with
    last,        \* the operation called on ent last
    twice        \* the last two calls on ent were both RecalculateConfidence

vars == <<pc, attempt, sleptMs, jsonStr, data, idx, processed, skipped,
          registry, orgStats, runStatus, written, jsonOut, csvPerformance,
          csvPrice, csvValue, legacyText, ent, raw, last, twice>>

getVars == <<attempt, sleptMs, jsonStr>>
loopVars == <<data, idx, processed, skipped, registry>>
fileVars == <<written, jsonOut, csvPerformance, csvPrice, csvValue, legacyText>>
entVars == <<ent, raw, last, twice>>
runVars == <<pc, getVars, loopVars, orgStats, runStatus, fileVars>>

EmptyJSON == [models |-> <<>>, ecosystem |-> <<>>]

\* the state before main runs
RunInit ==
    /\ attempt = 0
    /\ sleptMs = 0
    /\ jsonStr = EmptyBody
    /\ data = <<>>
    /\ idx = 0
    /\ processed = 0
    /\ skipped = 0
    /\ registry = <<>>
    /\ orgStats = <<>>
    /\ runStatus = "running"
    /\ written = {}
    /\ jsonOut = EmptyJSON
    /\ csvPerformance = <<>>
    /\ csvPrice = <<>>
    /\ csvValue = <<>>
    /\ legacyText = <<>>

\* main starts; no record is driven from outside Run
Init ==
    /\ pc = "main"
    /\ RunInit
    /\ ent = ModelEntity("", "")
    /\ raw = RawItem
    /\ last = "none"
    /\ twice = FALSE

\* main calls engine.Run(), which calls network.Get (lines 1299, 1145, 385)
StartRun ==
    /\ pc = "main"
    /\ pc' = "get"
    /\ attempt' = 1
    /\ UNCHANGED <<sleptMs, jsonStr, loopVars, orgStats, runStatus, fileVars, entVars>>

\* the loop of Get running one attempt too many
MoreAttemptsOffByOne(a) == a <= MAX_RETRIES + 1

\* the loop condition of Get (line 385)
MoreAttempts(a) == a <= MAX_RETRIES

\* one attempt of Get that fails: every failing path sleeps RETRY_DELAY_MS
\* and goes to the next attempt (lines 387, 389, 391, 404-405)
GetAttemptFails ==
    /\ pc = "get"
    /\ MoreAttempts(attempt)
    /\ \E f \in Failures :
         /\ sleptMs' = sleptMs + RETRY_DELAY_MS
         /\ attempt' = attempt + 1
    /\ UNCHANGED <<pc, jsonStr, loopVars, orgStats, runStatus, fileVars, entVars>>

\* one attempt of Get that reads a non-empty body: Get returns it
\* (line 402); its locals end with the call
GetAttemptSucceeds ==
    /\ pc = "get"
    /\ MoreAttempts(attempt)
    /\ \E body \in Bodies : jsonStr' = body
    /\ pc' = "fetched"
    /\ attempt' = 0
    /\ sleptMs' = 0
    /\ UNCHANGED <<loopVars, orgStats, runStatus, fileVars, entVars>>

\* the attempts are used up: Get returns "" (line 407)
GetGivesUp ==
    /\ pc = "get"
    /\ ~MoreAttempts(attempt)
    /\ jsonStr' = EmptyBody
    /\ pc' = "fetched"
    /\ attempt' = 0
    /\ sleptMs' = 0
    /\ UNCHANGED <<loopVars, orgStats, runStatus, fileVars, entVars>>

\* the tests treating a body that holds an object like one that holds an
\* array
IsArrayOrObjectPayload(body) == body.kind \in {"array", "object"}

\* the tests Run makes on the body before the record loop: it is not empty
\* (line 1146), json::parse accepts it (line 1155) and the value is an
\* array (line 1157)
IsArrayPayload(body) == body.kind = "array"

\* Run after Get: an empty body, a body that does not parse and a value
\* that is no array each make Run return (lines 1146-1149, 1157-1160,
\* 1241-1243); an array starts the record loop.
Parse ==
    /\ pc = "fetched"
    /\ IF IsArrayPayload(jsonStr)
       THEN /\ data' = jsonStr.items
            /\ idx' = 1
            /\ pc' = "loop"
            /\ UNCHANGED runStatus
       ELSE /\ runStatus' = "aborted"
            /\ pc' = "export"
            /\ UNCHANGED <<data, idx>>
    /\ UNCHANGED <<getVars, processed, skipped, registry, orgStats, fileVars, entVars>>

\* one pass of the record loop with a duplicate counted as skipped
RunItemCountingDuplicates ==
    /\ pc = "loop"
    /\ idx <= Len(data)
    /\ LET r == ProcessItem(registry, data[idx])
       IN /\ registry' = IF r.kind = "appended"
                         THEN Append(registry, r.m) ELSE registry
          /\ processed' = IF r.kind = "appended" THEN processed + 1 ELSE processed
          /\ skipped' = IF r.kind \in {"skipped", "duplicate"}
                        THEN skipped + 1 ELSE skipped
    /\ idx' = idx + 1
    /\ UNCHANGED <<pc, getVars, data, orgStats, runStatus, fileVars, entVars>>

\* one pass of the record loop (lines 1166-1221)
RunItem ==
    /\ pc = "loop"
    /\ idx <= Len(data)
    /\ LET r == ProcessItem(registry, data[idx])
       IN /\ registry' = IF r.kind = "appended"
                         THEN Append(registry, r.m) ELSE registry
          /\ processed' = IF r.kind = "appended" THEN processed + 1 ELSE processed
          /\ skipped' = IF r.kind = "skipped" THEN skipped + 1 ELSE skipped
    /\ idx' = idx + 1
    /\ UNCHANGED <<pc, getVars, data, orgStats, runStatus, fileVars, entVars>>

RECURSIVE EcosystemShares(_, _)
\* IntelligenceEngine::ComputeEcosystemShares: stats after the records of
\* reg are added to stats
EcosystemShares(stats, reg) ==
    IF reg = <<>> THEN stats
    ELSE LET m == Head(reg)
             org == IF m.organization = "" THEN "Other" ELSE m.organization
             old == IF org \in DOMAIN stats THEN stats[org]
                    ELSE [model_count |-> 0, avg_score |-> 0]
             new == [model_count |-> old.model_count + 1,
                     avg_score |-> old.avg_score + m.final_score]
         IN EcosystemShares(
              [o \in DOMAIN stats \cup {org} |->
                 IF o = org THEN new ELSE stats[o]],
              Tail(reg))

\* the loop is over: Run logs the summary, computes the ecosystem
\* statistics and returns (lines 1223-1249)
FinishRun ==
    /\ pc = "loop"
    /\ idx > Len(data)
    /\ orgStats' = EcosystemShares(orgStats, registry)
    /\ runStatus' = "complete"
    /\ pc' = "export"
    /\ UNCHANGED <<getVars, loopVars, fileVars, entVars>>

\* ProcessToJSON exporting the summed score in place of the mean
ProcessToJSONOfSums(reg, stats) ==
    [models |-> [i \in 1..Len(reg) |-> ToJSON(reg[i])],
     ecosystem |->
       [org \in DOMAIN stats |->
          stats[org].model_count * ((4 * SC) \div 10) + stats[org].avg_score * 3]]

\* IntelligenceEngine::ProcessToJSON
ProcessToJSON(reg, stats) ==
    [models |-> [i \in 1..Len(reg) |-> ToJSON(reg[i])],
     ecosystem |->
       [org \in DOMAIN stats |->
          LET st == stats[org]
              avg == IF st.model_count > 0
                     THEN st.avg_score \div st.model_count ELSE 0
          IN st.model_count * ((4 * SC) \div 10) + avg * 3]]

\* the files ExportAll writes (lines 1263-1267, 655)
ExportedFiles ==
    {"data/leaderboard_all.json", "data/leaderboard_performance.csv",
     "data/leaderboard_price.csv", "data/leaderboard_value.csv",
     "output.txt", "output/leaderboard.html"}

\* ExportAll with the performance view sorted in the registry itself
ExportAllInPlace ==
    /\ pc = "export"
    /\ jsonOut' = ProcessToJSON(registry, orgStats)
    /\ \E sorted \in SortOutcomes(registry, "performance") :
         /\ csvPerformance' = CSVRows(sorted, "performance")
         /\ registry' = sorted
    /\ \E sorted \in SortOutcomes(RemoveIf(registry, "price"), "price") :
         csvPrice' = CSVRows(sorted, "price")
    /\ \E sorted \in SortOutcomes(RemoveIf(registry, "value"), "value") :
         csvValue' = CSVRows(sorted, "value")
    /\ \E sorted \in SortOutcomes(registry, "legacy") :
         legacyText' = LegacyRows(sorted)
    /\ written' = written \cup ExportedFiles
    /\ pc' = "done"
    /\ UNCHANGED <<getVars, data, idx, processed, skipped, orgStats,
                   runStatus, entVars>>

\* IntelligenceEngine::ExportAll (lines 1261-1270), called by main whatever
\* Run did: the JSON document, ExportCSV for "performance", "price" and
\* "value", ExportLegacyText, and the report rendered from the JSON
\* document; then main returns
ExportAll ==
    /\ pc = "export"
    /\ jsonOut' = ProcessToJSON(registry, orgStats)
    /\ \E sorted \in SortOutcomes(registry, "performance") :
         csvPerformance' = CSVRows(sorted, "performance")
    /\ \E sorted \in SortOutcomes(RemoveIf(registry, "price"), "price") :
         csvPrice' = CSVRows(sorted, "price")
    /\ \E sorted \in SortOutcomes(RemoveIf(registry, "value"), "value") :
         csvValue' = CSVRows(sorted, "value")
    /\ \E sorted \in SortOutcomes(registry, "legacy") :
         legacyText' = LegacyRows(sorted)
    /\ written' = written \cup ExportedFiles
    /\ pc' = "done"
    /\ UNCHANGED <<getVars, loopVars, orgStats, runStatus, entVars>>

Next ==
    \/ StartRun
    \/ GetAttemptFails
    \/ GetAttemptSucceeds
    \/ GetGivesUp
    \/ Parse
    \/ RunItem
    \/ FinishRun
    \/ ExportAll

Spec == Init /\ [][Next]_vars

\* NetworkClient::Get alone: main up to the return of Get.  Get is
\* straight-line code around a bounded loop; each attempt returns or sleeps
\* a fixed time, so a step that is possible is eventually taken.
GetNext ==
    \/ StartRun
    \/ GetAttemptFails
    \/ GetAttemptSucceeds
    \/ GetGivesUp

GetSpec == Init /\ [][GetNext]_vars /\ WF_vars(GetNext)

(***************************************************************************)
(* ModelEntity on its own: one record and the public operations of the     *)
(* class called on it in any order, as any caller may.                     *)
(***************************************************************************)
\* the most AddSignal calls made on the record
MaxSignals == 2

\* raw scores passed to AddSignal: none, tiny, middling, high, 1.0, above 1.0
SignalScores ==
    {0, 1, (7 * SC) \div 10, (8 * SC) \div 10, (9 * SC) \div 10, SC,
     (3 * SC) \div 2}

\* the weights and source labels Run passes to AddSignal (lines 1191, 1195)
SignalKinds ==
    {[source |-> "ZeroEval GPQA", weight |-> SC \div 2],
     [source |-> "Avg Score", weight |-> (4 * SC) \div 10]}

\* an item with a coding score on the percent scale and the price -1 that
\* listings use for "no fixed price"
OffScaleItem ==
    [Named("Alpha") EXCEPT !.coding_score = JNum(85 * SC),
                           !.input_price = JNum(0 - PSC)]

\* the items a record is made from
EntityItems ==
    {it \in Items : IsString(it.name)
                    /\ it.name.s \in {"Alpha", "Zeta", "GPT-4 Turbo 2025"}}
    \cup {OffScaleItem}

\* a record whose public metrics members are assigned directly: ten days
\* old, coding and creative scores of 0.8, enterprise-ready
PresetEntity(n, o) ==
    [ModelEntity(n, o) EXCEPT
        !.metrics = [@ EXCEPT !.last_updated_days_ago = 10,
                              !.coding_score = (8 * SC) \div 10,
                              !.creative_score = (8 * SC) \div 10,
                              !.is_enterprise_ready = TRUE]]

\* ModelEntity m(name, org) for an item (lines 1174, 1185-1186), its metrics
\* as constructed or preset
EntityInit ==
    /\ pc = "entity"
    /\ RunInit
    /\ raw \in EntityItems
    /\ LET org == IF Contains(raw.organization)
                  THEN raw.organization.s ELSE "Unknown"
       IN \/ ent = ModelEntity(raw.name.s, org)
          \/ /\ org = "OpenAI"
             /\ ent = PresetEntity(raw.name.s, org)
    /\ last = "ModelEntity"
    /\ twice = FALSE

\* m.AddSignal(source, score, weight)
CallAddSignal ==
    /\ pc = "entity"
    /\ Len(ent.signals) < MaxSignals
    /\ \E score \in SignalScores : \E k \in SignalKinds :
         ent' = AddSignal(ent, k.source, score, k.weight)
    /\ last' = "AddSignal"
    /\ twice' = FALSE
    /\ UNCHANGED <<raw, runVars>>

\* m.ComputeAggregates()
CallComputeAggregates ==
    /\ pc = "entity"
    /\ ent' = ComputeAggregates(ent)
    /\ last' = "ComputeAggregates"
    /\ twice' = FALSE
    /\ UNCHANGED <<raw, runVars>>

\* KnowledgeBase::Enrich(m, item); an exception leaves m as far as Enrich got
CallEnrich ==
    /\ pc = "entity"
    /\ ent' = Enrich(ent, raw).m
    /\ last' = IF Enrich(ent, raw).threw THEN "EnrichThrew" ELSE "Enrich"
    /\ twice' = FALSE
    /\ UNCHANGED <<raw, runVars>>

\* m.RecalculateConfidence()
CallRecalculateConfidence ==
    /\ pc = "entity"
    /\ ent' = RecalculateConfidence(ent)
    /\ last' = "RecalculateConfidence"
    /\ twice' = (last = "RecalculateConfidence")
    /\ UNCHANGED <<raw, runVars>>

EntityNext ==
    \/ CallAddSignal
    \/ CallComputeAggregates
    \/ CallEnrich
    \/ CallRecalculateConfidence

EntitySpec == EntityInit /\ [][EntityNext]_vars

(***************************************************************************)
(* Properties                                                              *)
(***************************************************************************)
\* the registry record of a name
RecordOf(name) == CHOOSE r \in Range(registry) : r.name = name

\* C1: a run ends in one of two ways: the registry is non-empty and every
\* export file is written, or Run aborted and no export file is written;
\* no file is written after an aborted Run or with an empty registry.
C1_ExportOnlyAfterCompleteRun ==
    /\ written # {} => (runStatus = "complete" /\ registry # <<>>)
    /\ pc = "done" =>
         \/ registry # <<>> /\ written = ExportedFiles
         \/ runStatus = "aborted" /\ written = {}

\* C2: the recency tier stored in every registry record is the tier of the
\* record's staleness.
C2_TierMatchesStaleness ==
    \A i \in 1..Len(registry) :
       registry[i].metrics.recency_bonus
          = RecencyTier(registry[i].metrics.last_updated_days_ago)

\* 0.005 on the 0-1 scale, which is 0.5 on the 0-100 scale of the views
SpecTieBand == SC \div 2

\* the recency tier of a record as the data model defines it
TierOf(m) == RecencyTier(m.metrics.last_updated_days_ago)

\* the score of a record in a view
ViewScore(view, m) == IF view = "value" THEN m.ranks.value ELSE m.ranks.overall

\* rows (of a sorted export of a view) put the
\* record of the higher tier first whenever two scores are within the band
HigherTierFirst(rows, view) ==
    \A i, j \in 1..Len(rows) :
       LET a == RecordOf(rows[i].name)
           b == RecordOf(rows[j].name)
       IN (i < j /\ Abs(ViewScore(view, a) - ViewScore(view, b)) <= SpecTieBand)
             => ~(TierOf(b) > TierOf(a))


\* C3: in every sorted export, of two records whose view scores are within
\* the tie threshold the one with the strictly higher recency tier comes
\* first.
C3_RecencyWinsTies ==
    /\ HigherTierFirst(csvPerformance, "performance")
    /\ HigherTierFirst(csvValue, "value")
    /\ HigherTierFirst(legacyText, "performance")

\* C4: every export and view path treats the same pairs of records as
\* tied, namely those whose view scores differ by at most 0.5 on the
\* 0-100 scale.
C4_SameTiesEverywhere ==
    \A i, j \in 1..Len(registry) :
       LET a == registry[i]
           b == registry[j]
           band == Abs(a.ranks.overall - b.ranks.overall) <= SpecTieBand
       IN /\ WithinTieCSV(a.ranks.overall, b.ranks.overall) <=> band
          /\ WithinTieLegacy(a.ranks.overall * 100, b.ranks.overall * 100)
                <=> band
          /\ WithinTieReport(ToJSON(a).ranks.overall, ToJSON(b).ranks.overall)
                <=> band
          /\ WithinTieCSV(a.ranks.value, b.ranks.value)
                <=> (Abs(a.ranks.value - b.ranks.value) <= SpecTieBand)

\* C5: the relation that sorts the records of a view is irreflexive,
\* asymmetric and transitive, and "neither sorts before the other" is
\* transitive.
C5_ViewOrderIsStrictWeak ==
    /\ IsStrictWeakOrder(Range(registry), "performance")
    /\ \A a, b \in Range(registry) :
          ~(LessPerformance(a, b) /\ LessPerformance(b, a))

\* C6: no two records of the registry have the same name, at every point
\* during and after ingestion.
C6_UniqueNames ==
    \A i, j \in 1..Len(registry) :
       registry[i].name = registry[j].name => i = j

\* the item at position k carries a usable name (a non-empty string)
WellNamed(k) == data[k].name.t = "str" /\ data[k].name.s # ""

\* C6 witness: the loop has passed two well-named items of the same name
\* and the registry holds a record of that name.
C6_Witness ==
    /\ pc = "loop"
    /\ \E j \in 1..Len(data) : \E k \in 1..(j - 1) :
          /\ j < idx
          /\ WellNamed(k) /\ WellNamed(j)
          /\ data[k].name.s = data[j].name.s
          /\ \E i \in 1..Len(registry) : registry[i].name = data[j].name.s

\* the current item is well named and an earlier item had the same name
LaterOccurrence ==
    /\ pc = "loop" /\ idx <= Len(data) /\ WellNamed(idx)
    /\ \E k \in 1..(idx - 1) :
          WellNamed(k) /\ data[k].name.s = data[idx].name.s

\* C7 as claimed: every second and later occurrence of a name is skipped
\* silently, whatever became of the first occurrence.
C7_FirstSeenWins ==
    [][LaterOccurrence => (registry' = registry /\ skipped' = skipped)]_vars

\* the current item is well named and the registry holds its name
AcceptedBefore ==
    /\ pc = "loop" /\ idx <= Len(data) /\ WellNamed(idx)
    /\ \E i \in 1..Len(registry) : registry[i].name = data[idx].name.s

\* the item at position k yields a record that is appended when no record
\* of its name is in the registry
Acceptable(k) ==
    /\ WellNamed(k)
    /\ LET b == BuildEntity(data[k]) IN ~b.threw /\ b.m.final_score > 0

\* C7 as amended: an occurrence of a name that is already in the registry
\* is skipped without touching the registry or the counters; a record is
\* only ever appended from the first occurrence of its name that yields a
\* positive aggregate score, and is the record built from that occurrence.
C7_FirstAcceptedWins ==
    [][(pc = "loop" /\ idx <= Len(data)) =>
         /\ AcceptedBefore =>
               /\ registry' = registry
               /\ skipped' = skipped
               /\ processed' = processed
         /\ registry' # registry =>
               /\ Acceptable(idx)
               /\ registry' = Append(registry, BuildEntity(data[idx]).m)
               /\ \A k \in 1..(idx - 1) :
                     (WellNamed(k) /\ data[k].name.s = data[idx].name.s)
                        => ~Acceptable(k)
      ]_vars

\* C7 witness: a name whose first occurrence had no signal was accepted
\* from its second occurrence and its third occurrence was skipped.
C7_Witness ==
    /\ pc = "loop" /\ idx = 4 /\ Len(data) = 3
    /\ WellNamed(1) /\ WellNamed(2) /\ WellNamed(3)
    /\ data[1].name.s = data[2].name.s /\ data[2].name.s = data[3].name.s
    /\ ~Acceptable(1) /\ Acceptable(2)
    /\ Len(registry) = 1 /\ registry[1].name = data[1].name.s
    /\ skipped = 0 /\ processed = 1

\* C8: a record without signals has aggregate score 0 and confidence 10
\* and is not in the registry; every registry record has a signal and a
\* positive aggregate score.
C8_NoZeroSignalRecord ==
    /\ \A i \in 1..Len(registry) :
          Len(registry[i].signals) >= 1 /\ registry[i].final_score > 0
    /\ (pc = "loop" /\ idx <= Len(data) /\ WellNamed(idx)) =>
          LET b == BuildEntity(data[idx])
          IN (~b.threw /\ b.m.signals = <<>>)
                => /\ b.m.final_score = 0
                   /\ b.m.confidence_score = 10 * SC
                   /\ ProcessItem(registry, data[idx]).kind # "appended"

\* C8 witness: the loop is over, an item without a usable signal was
\* enriched and left out, and another item was appended.
C8_Witness ==
    /\ pc = "loop" /\ idx > Len(data)
    /\ Len(data) = 2 /\ WellNamed(2)
    /\ LET b == BuildEntity(data[2])
       IN /\ ~b.threw /\ b.m.signals = <<>> /\ b.m.modalities # {}
          /\ \A i \in 1..Len(registry) : registry[i].name # b.m.name
    /\ Len(registry) = 1

\* a value that is present and is no number the program can parse
Unparseable(j) == j.t \in {"str", "bool", "arr"}

NumericFields ==
    {"gpqa_score", "average_score", "input_price", "coding_score", "humaneval",
     "creative_score", "context_length", "throughput", "tokens_per_second"}

\* the item has a numeric field that does not parse
HasUnparseableField(item) == \E f \in NumericFields : Unparseable(item[f])

\* the item with its unparseable numeric fields removed
WithoutUnparseable(item) ==
    [f \in DOMAIN item |->
       IF f \in NumericFields /\ Unparseable(item[f]) THEN JAbsent ELSE item[f]]

\* the item's name is missing, no string, or empty
NameUnusable(item) == item.name.t # "str" \/ item.name.s = ""

\* the loop body is about to process an item
AtItem == pc = "loop" /\ idx <= Len(data)

\* C9 as claimed: a record with an unusable name or an unparseable numeric
\* field is not added, is counted as skipped once, and the loop goes on.
C9_MalformedIsSkipped ==
    [][(AtItem /\ (NameUnusable(data[idx]) \/ HasUnparseableField(data[idx])))
          => /\ registry' = registry
             /\ skipped' = skipped + 1
             /\ idx' = idx + 1 /\ pc' = "loop"]_vars

\* C9 as amended: a record whose name is missing, no string or empty is not
\* added, is counted as skipped exactly once, and the loop goes on to the
\* next record with the registry as it was; an unparseable numeric field
\* does not make a record malformed: the record is processed exactly as if
\* the field were absent.
C9_BadNameIsSkipped ==
    [][AtItem =>
         /\ NameUnusable(data[idx]) =>
               /\ registry' = registry
               /\ skipped' = skipped + 1
               /\ processed' = processed
               /\ idx' = idx + 1 /\ pc' = "loop" /\ data' = data
         /\ (~NameUnusable(data[idx]) /\ HasUnparseableField(data[idx])) =>
               LET r == ProcessItem(registry, WithoutUnparseable(data[idx]))
               IN /\ registry' = IF r.kind = "appended"
                                 THEN Append(registry, r.m) ELSE registry
                  /\ skipped' = IF r.kind = "skipped"
                                THEN skipped + 1 ELSE skipped
                  /\ idx' = idx + 1 /\ pc' = "loop"
      ]_vars

\* C9 witness: an item with an unusable name was skipped and counted, and
\* the item after it, which has an unparseable numeric field, was appended.
C9_Witness ==
    /\ pc = "loop" /\ idx = 3
    /\ NameUnusable(data[1])
    /\ ~NameUnusable(data[2]) /\ HasUnparseableField(data[2])
    /\ skipped = 1 /\ processed = 1
    /\ Len(registry) = 1 /\ registry[1].name = data[2].name.s

\* C10: Get terminates; it makes at most MAX_RETRIES attempts, returns the
\* body of the first attempt that reads one without a further attempt, has
\* slept RETRY_DELAY_MS after each failed attempt, and returns the empty
\* string exactly when MAX_RETRIES attempts have failed.
C10_GetTerminates ==
    /\ [](pc = "get" =>
            /\ attempt \in 1..(MAX_RETRIES + 1)
            /\ sleptMs = (attempt - 1) * RETRY_DELAY_MS
            /\ jsonStr = EmptyBody)
    /\ [][(pc = "get" /\ jsonStr' # EmptyBody)
             => (pc' = "fetched" /\ attempt <= MAX_RETRIES)]_vars
    /\ [][(pc = "get" /\ pc' = "fetched" /\ jsonStr' = EmptyBody)
             => (attempt = MAX_RETRIES + 1
                 /\ sleptMs = MAX_RETRIES * RETRY_DELAY_MS)]_vars
    /\ (pc = "get") ~> (pc = "fetched")

\* C10 witness: three attempts have failed, each followed by the wait, and
\* Get is about to return the empty string.
C10_Witness ==
    /\ pc = "get" /\ ~ENABLED GetAttemptFails /\ ENABLED GetGivesUp
    /\ attempt = MAX_RETRIES + 1
    /\ sleptMs = MAX_RETRIES * RETRY_DELAY_MS

\* C11: when Get returned the empty string, or the body is no top-level
\* array, Run returns without entering the record loop: no record is
\* parsed, counted or appended, the registry and the organization
\* statistics are empty and stay empty, and the run never reaches the
\* post-processing stage that computes the ecosystem statistics.
C11_AbortBeforeAnyRecord ==
    /\ [][(pc = "fetched" /\ jsonStr.kind # "array")
            => /\ runStatus' = "aborted" /\ pc' = "export"
               /\ registry' = <<>> /\ orgStats' = <<>>
               /\ data' = <<>> /\ idx' = 0
               /\ processed' = 0 /\ skipped' = 0]_vars
    /\ [](runStatus = "aborted"
            => /\ jsonStr.kind # "array" /\ pc \in {"export", "done"}
               /\ registry = <<>> /\ orgStats = <<>>
               /\ processed = 0 /\ skipped = 0)
    /\ [][runStatus = "aborted" => runStatus' = "aborted"]_vars

\* C11 witness: every attempt of Get failed, Run returned at once and main
\* has finished.
C11_Witness ==
    /\ pc = "done" /\ runStatus = "aborted"
    /\ jsonStr = EmptyBody
    /\ registry = <<>> /\ orgStats = <<>>

AggregateIsCurrent == ent.final_score = ComputeAggregates(ent).final_score

ScoreWeightSum(sigs) ==
    LET f[i \in 0..Len(sigs)] ==
          IF i = 0 THEN 0 ELSE f[i - 1] + sigs[i].score * sigs[i].weight
    IN f[Len(sigs)]
WeightSum(sigs) ==
    LET f[i \in 0..Len(sigs)] == IF i = 0 THEN 0 ELSE f[i - 1] + sigs[i].weight
    IN f[Len(sigs)]

\* C13: after AddSignal calls (with positive weights) followed by
\* ComputeAggregates, final_score lies in [0, 1], is the weighted mean of the
\* retained signal scores (to the last digit of the fixed-point scale), and
\* is 0 exactly when the signal list is empty; every retained score lies in
\* (0, 1].
C13_AggregateIsWeightedMean ==
    last = "ComputeAggregates" =>
       /\ ent.final_score >= 0 /\ ent.final_score <= SC
       /\ \A i \in 1..Len(ent.signals) :
             ent.signals[i].score > 0 /\ ent.signals[i].score <= SC
       /\ ent.signals # <<>> =>
             /\ WeightSum(ent.signals) > 0
             /\ ent.final_score * WeightSum(ent.signals)
                   <= ScoreWeightSum(ent.signals)
             /\ ScoreWeightSum(ent.signals)
                   < (ent.final_score + 1) * WeightSum(ent.signals)
       /\ ent.final_score = 0 <=> ent.signals = <<>>

\* C13 witness: two retained signals of different score and weight, one of
\* them clamped to 1, and an aggregate strictly between the two scores.
C13_Witness ==
    /\ last = "ComputeAggregates"
    /\ Len(ent.signals) = 2
    /\ ent.signals[1].weight # ent.signals[2].weight
    /\ ent.signals[1].score = SC /\ ent.signals[2].score = (7 * SC) \div 10
    /\ ent.final_score > ent.signals[2].score
    /\ ent.final_score < ent.signals[1].score

\* a ranking value as exposed: between 0 and 100
Exposable(v) == v >= 0 /\ v <= 100 * SC

\* C14: every ranking value written by an export path (the JSON document,
\* the performance and value CSV files, the legacy text file) lies in
\* [0, 100].
C14_ExportedRanksInRange ==
    /\ \A i \in 1..Len(jsonOut.models) :
          \A k \in DOMAIN jsonOut.models[i].ranks :
             Exposable(jsonOut.models[i].ranks[k])
    /\ \A i \in 1..Len(csvPerformance) : Exposable(csvPerformance[i].view)
    /\ \A i \in 1..Len(csvValue) : Exposable(csvValue[i].view)
    /\ \A i \in 1..Len(legacyText) : Exposable(legacyText[i].view)

\* C15: the modality set of every record that went through Enrich (here:
\* every record of the registry) is a non-empty subset of
\* {Text, Image, Video}.
C15_ModalitiesNonEmpty ==
    \A i \in 1..Len(registry) :
       registry[i].modalities # {} /\ registry[i].modalities \subseteq Modality

\* C16: RecalculateConfidence (which ends in ComputeRankings) called again
\* on a record it has just been called on changes nothing: confidence,
\* reason and the eight rank values stay as the first call left them.
C16_RecomputationIdempotent ==
    last = "RecalculateConfidence" =>
       LET again == RecalculateConfidence(ent)
       IN /\ again.confidence_score = ent.confidence_score
          /\ again.confidence_reason = ent.confidence_reason
          /\ \A k \in DOMAIN ent.ranks : again.ranks[k] = ent.ranks[k]
          /\ again = ent

\* C16 witness: RecalculateConfidence was called twice in a row on an
\* enriched record with signals whose reason string is not empty and whose
\* video rank went through the non-video reduction.
C16_Witness ==
    /\ twice /\ last = "RecalculateConfidence"
    /\ ent.signals # <<>>
    /\ ent.confidence_reason # <<>>
    /\ "Video" \notin ent.modalities /\ ent.ranks.video > 0

\* C17: a record that Run appends went through the stages in this order:
\* signals added, aggregate computed, enrichment applied, confidence
\* computed, rankings computed, append.  So the appended record is the
\* result of that chain, its enrichment saw the aggregate, its confidence is
\* the one its enriched metrics give, and its ranks are the ones that
\* confidence gives.
C17_StagesInOrder ==
    [][(pc = "loop" /\ idx <= Len(data) /\ registry' # registry) =>
         LET item == data[idx]
             org == IF Contains(item.organization)
                    THEN item.organization.s ELSE "Unknown"
             signalled == IngestSignals(ModelEntity(item.name.s, org), item)
             aggregated == ComputeAggregates(signalled)
             enriched == Enrich(aggregated, item).m
             rated == RecalculateConfidence(enriched)
             m == registry'[Len(registry')]
         IN /\ registry' = Append(registry, rated)
            /\ m.signals = signalled.signals
            /\ m.final_score = aggregated.final_score
            /\ m.metrics = enriched.metrics
            /\ m.metrics.reasoning_score = m.final_score
            /\ m.confidence_score = RecalculateConfidence(m).confidence_score
            /\ m.ranks = ComputeRankings(m).ranks
      ]_vars

\* C17 witness: the registry holds a record whose confidence took a bonus
\* from its enriched metrics and whose ranks carry that confidence.
C17_Witness ==
    /\ pc = "loop" /\ idx > 1
    /\ \E i \in 1..Len(registry) :
          /\ registry[i].confidence_reason # <<>>
          /\ registry[i].metrics.is_enterprise_ready
          /\ registry[i].ranks.confidence = registry[i].confidence_score
          /\ registry[i].ranks.overall > 0

\* C18: whenever an operation on a record changes its aggregate score or
\* its confidence, the eight stored rank values are recomputed: after the
\* operation they are the ranking formulas applied to the record as it is.
C18_RanksNeverStale ==
    [][(pc = "entity"
        /\ (ent'.final_score # ent.final_score
            \/ ent'.confidence_score # ent.confidence_score))
          => ent'.ranks = ComputeRankings(ent').ranks
      ]_vars

\* C19: the registry only grows, by one record appended at its end by a
\* pass of the record loop; a record once in it is never removed, moved or
\* changed, and the end of Run (ComputeEcosystemShares) and ExportAll
\* (ProcessToJSON, ExportCSV, ExportLegacyText) leave it as it is.
C19_RegistryAppendOnly ==
    /\ [][/\ Len(registry') \in {Len(registry), Len(registry) + 1}
           /\ SubSeq(registry', 1, Len(registry)) = registry]_vars
    /\ [][registry' # registry
             => (pc = "loop" /\ idx <= Len(data) /\ pc' = "loop")]_vars
    /\ [][(pc \in {"export", "done"} \/ (pc = "loop" /\ idx > Len(data)))
             => registry' = registry]_vars

\* C19 witness: main has finished, the registry holds three records in the
\* order they were accepted, and the performance file lists them in another
\* order.
C19_Witness ==
    /\ pc = "done" /\ runStatus = "complete"
    /\ Len(registry) = 3 /\ Len(csvPerformance) = 3
    /\ \A i \in 1..3 : registry[i].name = data[i].name.s
    /\ csvPerformance[1].name = registry[3].name

\* Run has returned after the record loop
RunComplete == pc = "export" /\ runStatus = "complete"

\* the payload of the run in the order p
Reordered(p) == [i \in 1..Len(data) |-> data[p[i]]]

\* a run over the payload in the order p ends with the records and the
\* organization statistics of the run that was made
SameOutcome(p) ==
    LET reg == RunLoop(<<>>, Reordered(p))
    IN /\ Range(reg) = Range(registry)
       /\ EcosystemShares(<<>>, reg) = orgStats

\* C20 as stated: whatever the order of the records of the payload, Run
\* leaves the same set of records, each with the same aggregate score,
\* confidence and ranks, and the same organization statistics.
C20_OrderIrrelevant ==
    RunComplete => \A p \in Arrangements(Len(data)) : SameOutcome(p)

\* two items of the payload that would each be accepted on their own and
\* share a name are the same item
NoCompetingRecords ==
    \A j, k \in 1..Len(data) :
       (Acceptable(j) /\ Acceptable(k) /\ data[j].name.s = data[k].name.s)
          => data[j] = data[k]

\* C20 as amended: when no two different acceptable items share a name,
\* every order of the payload gives the same set of records and the same
\* organization statistics (counts and exact score sums), and the registry
\* is what the loop leaves over the payload.
C20_OrderIrrelevantWithoutCompetitors ==
    (RunComplete /\ NoCompetingRecords) =>
       /\ registry = RunLoop(<<>>, data)
       /\ \A p \in Arrangements(Len(data)) : SameOutcome(p)

\* C20 witness: a run over three items, two of one name of which only one
\* is acceptable, that kept two records of two organizations.
C20_Witness ==
    /\ RunComplete /\ NoCompetingRecords
    /\ Len(data) = 3 /\ Len(registry) = 2
    /\ \E j, k \in 1..3 :
          /\ j < k /\ WellNamed(j) /\ WellNamed(k)
          /\ data[j].name.s = data[k].name.s /\ data[j] # data[k]
          /\ ~Acceptable(j) /\ Acceptable(k)
    /\ registry[1].organization # registry[2].organization

\* a score on the unit scale
UnitScore(x) == x >= 0 /\ x <= SC

\* C21: after Enrich the metrics are in the ranges of the schema: the
\* reasoning, coding and creative scores in [0, 1], the price and the
\* throughput not negative.
C21_EnrichedMetricsInRange ==
    (pc = "entity" /\ last = "Enrich") =>
       /\ UnitScore(ent.metrics.reasoning_score)
       /\ UnitScore(ent.metrics.coding_score)
       /\ UnitScore(ent.metrics.creative_score)
       /\ ent.metrics.price_input_1m >= 0
       /\ ent.metrics.tokens_per_sec >= 0

\* the key a record is counted under
OrgKey(m) == IF m.organization = "" THEN "Other" ELSE m.organization

\* the positions of the registry records of an organization key
GroupOf(org) == {i \in 1..Len(registry) : OrgKey(registry[i]) = org}

RECURSIVE ScoreSum(_)
\* the sum of the aggregate scores of the registry records at the positions
ScoreSum(positions) ==
    IF positions = {} THEN 0
    ELSE LET i == CHOOSE j \in positions : TRUE
         IN registry[i].final_score + ScoreSum(positions \ {i})

RECURSIVE CountSum(_)
\* the sum of the model counts of the organization keys
CountSum(orgs) ==
    IF orgs = {} THEN 0
    ELSE LET o == CHOOSE x \in orgs : TRUE
         IN orgStats[o].model_count + CountSum(orgs \ {o})

\* C22: after Run the organization statistics partition the registry: the
\* keys are the organizations of the records ("" counted as "Other"), each
\* model_count is the number of records of the key, the counts add up to
\* the size of the registry, and the exported composite of a key is
\* 0.4 * model_count + 0.3 * (mean aggregate score of its records * 10).
C22_OrgStatsPartitionRegistry ==
    (pc \in {"export", "done"} /\ runStatus = "complete") =>
       /\ DOMAIN orgStats = {OrgKey(registry[i]) : i \in 1..Len(registry)}
       /\ \A org \in DOMAIN orgStats :
             /\ orgStats[org].model_count = Cardinality(GroupOf(org))
             /\ orgStats[org].avg_score = ScoreSum(GroupOf(org))
       /\ CountSum(DOMAIN orgStats) = Len(registry)
       /\ pc = "done" =>
             /\ DOMAIN jsonOut.ecosystem = DOMAIN orgStats
             /\ \A org \in DOMAIN orgStats :
                   jsonOut.ecosystem[org] =
                      Cardinality(GroupOf(org)) * ((4 * SC) \div 10)
                      + 3 * (ScoreSum(GroupOf(org)) \div Cardinality(GroupOf(org)))

\* C22 witness: the export of a registry of three records, one of them with
\* the empty organization, another organization having two records of
\* different scores.
C22_Witness ==
    /\ pc = "done" /\ runStatus = "complete" /\ Len(registry) = 3
    /\ \E i \in 1..3 : registry[i].organization = ""
    /\ "Other" \in DOMAIN jsonOut.ecosystem
    /\ \E org \in DOMAIN orgStats :
          /\ orgStats[org].model_count = 2
          /\ \E i, j \in GroupOf(org) :
                registry[i].final_score # registry[j].final_score

\* "approximately" for a score or a deviation: to within 0.0005
NearScore(x, y) == Abs(x - y) <= 5

\* "approximately" for a confidence: to within 0.05 of a point
NearConfidence(x, y) == Abs(x - y) <= 500

\* the dispersion term of lines 249-253
Dispersion(m) ==
    IF Len(m.signals) > 1
    THEN Sqrt(SqSum(m.signals, m.final_score) \div Len(m.signals))
    ELSE 0

\* the record of the example: signals {0.90 weight 0.5, 0.70 weight 0.4},
\* staleness 10 days, coding = creative = 0.8, enterprise-ready, aggregated
\* and then given its confidence
ExampleRecord ==
    /\ pc = "entity" /\ last = "RecalculateConfidence"
    /\ Len(ent.signals) = 2
    /\ ent.signals[1].score = (9 * SC) \div 10 /\ ent.signals[1].weight = SC \div 2
    /\ ent.signals[2].score = (7 * SC) \div 10
    /\ ent.signals[2].weight = (4 * SC) \div 10
    /\ ent.metrics.last_updated_days_ago = 10
    /\ ent.metrics.coding_score = (8 * SC) \div 10
    /\ ent.metrics.creative_score = (8 * SC) \div 10
    /\ ent.metrics.is_enterprise_ready
    /\ AggregateIsCurrent

\* C23 as stated: the example record has the aggregate 0.8111, the
\* dispersion 0.0943 and the confidence 95.3.
C23_ExampleValues ==
    ExampleRecord =>
       /\ NearScore(ent.final_score, 8111)
       /\ NearScore(Dispersion(ent), 943)
       /\ NearConfidence(ent.confidence_score, 953000)

\* C23 as amended: the example record has the aggregate 0.8111, the
\* dispersion 0.1006 (penalty 5.03) and the confidence 94.97.
C23_ExampleValuesComputed ==
    ExampleRecord =>
       /\ NearScore(ent.final_score, 8111)
       /\ NearScore(Dispersion(ent), 1006)
       /\ NearConfidence(ent.confidence_score, 949700)

\* C23 witness: the example record after AddSignal twice,
\* ComputeAggregates and RecalculateConfidence.
C23_Witness == ExampleRecord /\ ent.modalities = {}

\* the signal lists of n signals that AddSignal can have built
SignalLists(n) ==
    [1..n -> {[source |-> k.source, score |-> Clamp(sc, 0, SC),
               weight |-> k.weight] :
                 sc \in SignalScores \ {0}, k \in SignalKinds}]

\* the record with the signal list replaced, all else equal
WithSignals(sigs) == [ent EXCEPT !.signals = sigs]

\* C24: of two records with the same number of signals, the same aggregate
\* score, metrics and modalities, the one whose signal scores deviate more
\* from the aggregate (population standard deviation) never gets the higher
\* confidence.
C24_DispersionMonotone ==
    (pc = "entity" /\ last = "RecalculateConfidence") =>
       \A sigs \in SignalLists(Len(ent.signals)) :
          Dispersion(WithSignals(sigs)) > Dispersion(ent)
             => RecalculateConfidence(WithSignals(sigs)).confidence_score
                   <= ent.confidence_score

\* C24 witness: a record of two agreeing signals, its aggregate current,
\* and another list of two signals with the same aggregate and a larger
\* deviation that gives a strictly lower confidence.
C24_Witness ==
    /\ pc = "entity" /\ last = "RecalculateConfidence"
    /\ Len(ent.signals) = 2 /\ AggregateIsCurrent
    /\ \E sigs \in SignalLists(2) :
          /\ ComputeAggregates(WithSignals(sigs)).final_score = ent.final_score
          /\ Dispersion(WithSignals(sigs)) > Dispersion(ent)
          /\ RecalculateConfidence(WithSignals(sigs)).confidence_score
                < ent.confidence_score

\* the loop body appends a record in this step
Appends == pc = "loop" /\ idx <= Len(data) /\ Len(registry') = Len(registry) + 1

\* C25: a record ingested with a context length of T tokens has the Coding
\* score (0.6 coding + 0.2 reasoning + 0.1 clamp(T/200000, 0, 1) + 0.1 C)
\* * 100: T is divided by 200000 once, and T >= 200000 gives the full 10
\* points.
C25_ContextNormalizedOnce ==
    [][(Appends /\ TryGetDouble(data[idx].context_length).ok) =>
         LET m == registry'[Len(registry')]
             T == TryGetDouble(data[idx].context_length).out
         IN m.ranks.coding =
               m.metrics.coding_score * 60 + m.metrics.reasoning_score * 20
               + Clamp(T \div (200000 \div SC), 0, SC) * 10
               + (m.confidence_score \div 100) * 10
      ]_vars

\* (0.5 S + 0.3 creative + 0.1 clamp(tokens_per_sec / 150, 0, 1) + 0.1 C)
\* * 100 for a record, whatever its modalities
Ungated(m) ==
    m.final_score * 50 + m.metrics.creative_score * 30
    + Clamp((m.metrics.tokens_per_sec * SC) \div 150, 0, SC) * 10
    + (m.confidence_score \div 100) * 10

\* C26: the Image score of a record is 0 when its modality set has no
\* Image, and the Image formula's value when it has.
C26_ImageGated ==
    \A i \in 1..Len(registry) :
       registry[i].ranks.image =
          IF "Image" \in registry[i].modalities
          THEN Ungated(registry[i]) ELSE 0

\* C26 witness: a registry with a record with Image, of a positive Image
\* score, and a record without, whose Image formula is positive.
C26_Witness ==
    /\ \E i \in 1..Len(registry) :
          "Image" \in registry[i].modalities /\ registry[i].ranks.image > 0
    /\ \E i \in 1..Len(registry) :
          /\ "Image" \notin registry[i].modalities
          /\ Ungated(registry[i]) > 0 /\ registry[i].ranks.image = 0

\* C27: the Video score of a record without Video is 0.3 times the
\* formula's value, with or without Image in the set, so it is positive
\* whenever the formula's value is; the Video score of a record with Video
\* is the formula's value.
C27_VideoScaledNotZeroed ==
    \A i \in 1..Len(registry) :
       LET m == registry[i]
       IN /\ "Video" \in m.modalities => m.ranks.video = Ungated(m)
          /\ "Video" \notin m.modalities =>
                /\ m.ranks.video = (Ungated(m) * 3) \div 10
                /\ Ungated(m) > 0 => m.ranks.video > 0

\* C27 witness: a registry with a record with Video, a record with Image
\* and no Video, and a record with neither.
C27_Witness ==
    /\ \E i \in 1..Len(registry) : "Video" \in registry[i].modalities
    /\ \E i \in 1..Len(registry) :
          /\ registry[i].modalities \cap {"Image", "Video"} = {"Image"}
          /\ registry[i].ranks.video > 0
    /\ \E i \in 1..Len(registry) :
          /\ registry[i].modalities \cap {"Image", "Video"} = {}
          /\ registry[i].ranks.video > 0

\* what the contract of AddSignal gives from the record m
AddSignalContract(m, source, score, weight) ==
    IF score <= 0 THEN m
    ELSE [m EXCEPT !.signals =
            m.signals \o <<[source |-> source,
                            score |-> IF score > SC THEN SC ELSE score,
                            weight |-> weight]>>]

\* C28: AddSignal leaves the record as it is when the raw score is not
\* positive, and otherwise appends one signal with the score clamped to
\* [0, 1] and the weight given, the earlier signals unchanged; every signal
\* a record holds has a score in (0, 1] and a positive weight, and nothing
\* but AddSignal changes the signal list.
C28_AddSignalContract ==
    /\ [](pc = "entity" =>
            /\ \A score \in SignalScores : \A k \in SignalKinds :
                  AddSignal(ent, k.source, score, k.weight)
                     = AddSignalContract(ent, k.source, score, k.weight)
            /\ \A i \in 1..Len(ent.signals) :
                  /\ ent.signals[i].score > 0 /\ ent.signals[i].score <= SC
                  /\ ent.signals[i].weight > 0)
    /\ [][pc = "entity" =>
            /\ Len(ent'.signals) \in {Len(ent.signals), Len(ent.signals) + 1}
            /\ SubSeq(ent'.signals, 1, Len(ent.signals)) = ent.signals
            /\ ent'.signals # ent.signals => last' = "AddSignal"
            /\ last' = "AddSignal" =>
                  \E score \in SignalScores : \E k \in SignalKinds :
                     ent' = AddSignalContract(ent, k.source, score, k.weight)
         ]_vars

\* C28 witness: a second signal has been appended after the first, and
\* from this record a raw score of 0 adds nothing while a raw score of 1.5
\* would be kept as 1.
C28_Witness ==
    /\ pc = "entity" /\ last = "AddSignal" /\ Len(ent.signals) = 2
    /\ ent.signals[1].score # ent.signals[2].score
    /\ AddSignal(ent, "Avg Score", 0, (4 * SC) \div 10) = ent
    /\ LET m == AddSignal(ent, "Avg Score", (3 * SC) \div 2, (4 * SC) \div 10)
       IN Len(m.signals) = 3 /\ m.signals[3].score = SC

\* the item's gpqa_score parses and gives no signal: it is 0 or outside
\* [0, 1]
GpqaUnusable(item) ==
    LET g == TryGetDouble(item.gpqa_score)
    IN g.ok /\ (g.out <= 0 \/ g.out > SC)

\* the item's average_score would give a signal
AverageUsable(item) ==
    LET v == TryGetDouble(item.average_score)
    IN v.ok /\ v.out > 0 /\ v.out <= SC

\* the one signal Run takes from an item: gpqa_score if it parses,
\* average_score otherwise
OnlySignal(item) ==
    LET g == TryGetDouble(item.gpqa_score)
    IN IF g.ok
       THEN <<[source |-> "ZeroEval GPQA", score |-> g.out,
               weight |-> SC \div 2]>>
       ELSE <<[source |-> "Avg Score",
               score |-> TryGetDouble(item.average_score).out,
               weight |-> (4 * SC) \div 10]>>

\* C29: every registry record has exactly one signal, no dispersion and
\* never the rationale of three signals; the signal is taken from
\* gpqa_score when that parses and from average_score otherwise, and an
\* item whose gpqa_score parses to 0 or to a value outside [0, 1] adds no
\* record, whatever its average_score.
C29_ExactlyOneSignal ==
    /\ [](\A i \in 1..Len(registry) :
            /\ Len(registry[i].signals) = 1
            /\ Dispersion(registry[i]) = 0
            /\ "High Consensus" \notin Range(registry[i].confidence_reason))
    /\ [][(pc = "loop" /\ idx <= Len(data)) =>
            /\ GpqaUnusable(data[idx]) => registry' = registry
            /\ Len(registry') = Len(registry) + 1 =>
                  registry'[Len(registry')].signals = OnlySignal(data[idx])
         ]_vars

\* C29 witness: the loop is over; an item whose gpqa_score is 0 and an
\* item whose gpqa_score is 85, each with a usable average_score and a
\* name of its own, added no record, and a third item added one.
C29_Witness ==
    /\ pc = "loop" /\ idx = 4 /\ Len(data) = 3 /\ Len(registry) = 1
    /\ \E j, k \in 1..3 :
          /\ WellNamed(j) /\ WellNamed(k)
          /\ TryGetDouble(data[j].gpqa_score).ok
          /\ TryGetDouble(data[j].gpqa_score).out = 0
          /\ TryGetDouble(data[k].gpqa_score).ok
          /\ TryGetDouble(data[k].gpqa_score).out > SC
          /\ AverageUsable(data[j]) /\ AverageUsable(data[k])
          /\ \A i \in {j, k} : registry[1].name # data[i].name.s

\* the entry at position k has a usable name that an earlier accepted entry
\* has
SilentDuplicate(k) ==
    /\ ~BadName(data[k])
    /\ \E j \in 1..(k - 1) :
          Acceptable(j) /\ data[j].name.s = data[k].name.s

\* the entry at position k is no duplicate, is read without an error and
\* yields no signal
ZeroSignal(k) ==
    /\ ~BadName(data[k]) /\ ~SilentDuplicate(k)
    /\ ~BuildEntity(data[k]).threw
    /\ BuildEntity(data[k]).m.signals = <<>>

\* the entries before position n that are dropped without being counted
SilentBefore(n) == {k \in 1..(n - 1) : SilentDuplicate(k) \/ ZeroSignal(k)}

\* C30: throughout the record loop and at its end, processed is the number
\* of registry records and the entries seen that are neither processed nor
\* skipped are exactly the duplicates and the zero-signal records; each
\* pass counts its entry as processed, as skipped or not at all, never as
\* both.
C30_CountersAccountForEntries ==
    /\ [](pc = "loop" =>
            /\ processed = Len(registry)
            /\ processed + skipped <= idx - 1
            /\ (idx - 1) - (processed + skipped)
                  = Cardinality(SilentBefore(idx)))
    /\ [][(pc = "loop" /\ idx <= Len(data)) =>
            \/ /\ processed' = processed + 1 /\ skipped' = skipped
               /\ Len(registry') = Len(registry) + 1
            \/ /\ processed' = processed /\ skipped' = skipped + 1
               /\ registry' = registry
            \/ /\ processed' = processed /\ skipped' = skipped
               /\ registry' = registry
               /\ SilentDuplicate(idx) \/ ZeroSignal(idx)
         ]_vars

\* C30 witness: the loop has ended over three entries: one processed, one
\* skipped and one duplicate that no counter counts.
C30_Witness ==
    /\ pc = "loop" /\ Len(data) = 3 /\ idx = 4
    /\ processed = 1 /\ skipped = 1 /\ Len(registry) = 1
    /\ \E k \in 1..3 : SilentDuplicate(k)

====
